---- MODULE Spec2Model ----
(***************************************************************************)
(* A model of gford1000-go/apiserver: the Config builder, the              *)
(* APISpecification path lists, Server.init's route table, the path        *)
(* variable retriever and the Start / SIGINT / Shutdown lifecycle.         *)
(*                                                                         *)
(* Go strings are modelled as sequences of one-character strings, so that  *)
(* slicing, concatenation and lower-casing are computed as the code does.  *)
(* The domain is left at "localhost" (no host subrouter) and the port and  *)
(* the logger are not followed.  Where the source holds several versions   *)
(* of a file, the one with validPrefix and getRetriever is modelled.       *)
(***************************************************************************)
EXTENDS Integers, Sequences, FiniteSets, TLC

VARIABLES
    vpIn,       \* validPrefix harness: the prefix argument
    vpFlag,     \* validPrefix harness: requireTrailingSlash
    vpOut,      \* validPrefix harness: the outcome of the call
    rq,         \* retriever harness: mux.Vars(req), variableName, defaultValue
    rOut,       \* retriever harness: what the retriever returned
    cfg,        \* the Config being built
    lastCall,   \* the last builder call and what it returned
    srv,        \* what NewServer returned: the Server, or the error
    pc,         \* where the goroutine that called Start is
    lsn,        \* the ListenAndServe goroutine / the listener
    sdn,        \* the Shutdown goroutine
    sigc,       \* the signal channel c (capacity 1): number of buffered signals
    ctx,        \* the context created by context.WithTimeout in Start
    conns,      \* number of open client connections
    served,     \* the last request the router dispatched and where it went
    nCalls      \* number of builder calls made on the Config so far

vars == <<vpIn, vpFlag, vpOut, rq, rOut, cfg, lastCall, srv,
          pc, lsn, sdn, sigc, ctx, conns, served, nCalls>>

(***************************************************************************)
(* Bounds                                                                  *)
(***************************************************************************)
MaxLen == 3          \* longest prefix handed to validPrefix in the harness

(***************************************************************************)
(* Strings                                                                 *)
(***************************************************************************)
LowerLetters == {"a", "e", "h", "i", "l", "p", "q", "t", "v"}
Digits       == {"0", "1", "2", "3", "4", "5", "6", "7", "8", "9"}

\* strings.ToLower on one character
ToLowerChar(c) ==
    CASE c = "A" -> "a"
      [] c = "P" -> "p"
      [] c = "V" -> "v"
      [] OTHER   -> c

\* strings.ToLower
ToLower(s) == [i \in 1..Len(s) |-> ToLowerChar(s[i])]

\* all strings over the character set cs of length 1..n
StringsUpTo(cs, n) == UNION {[1..k -> cs] : k \in 1..n}

\* regexp ^[/]?[a-z][a-z0-9]*[/]?$
MatchesPrefixRegexp(s) ==
    LET a == IF Len(s) > 0 /\ s[1] = "/" THEN Tail(s) ELSE s
        b == IF Len(a) > 0 /\ a[Len(a)] = "/" THEN SubSeq(a, 1, Len(a) - 1) ELSE a
    IN  /\ Len(b) >= 1
        /\ b[1] \in LowerLetters
        /\ \A i \in 2..Len(b) : b[i] \in LowerLetters \cup Digits

(***************************************************************************)
(* validPrefix                                                             *)
(***************************************************************************)
\* The result of a call: it panicked, or it returned val.
Panic == [panic |-> TRUE, val |-> <<>>]
Ret(v) == [panic |-> FALSE, val |-> v]

\* prefix[0:] is the whole string and prefix[:len(prefix)-1] is the string
\* without its last character: the slices are modelled as Go takes them.
validPrefix(prefix, requireTrailingSlash) ==
    LET lower == ToLower(prefix)
        p1 == IF SubSeq(lower, 1, Len(lower)) # <<"/">>
              THEN <<"/">> \o lower ELSE lower
        p2 == IF requireTrailingSlash /\ SubSeq(p1, 1, Len(p1) - 1) # <<"/">>
              THEN p1 \o <<"/">> ELSE p1
    IN  IF ~MatchesPrefixRegexp(lower) THEN Panic ELSE Ret(p2)

(***************************************************************************)
(* Idle values of the parts of the state a specification does not use      *)
(***************************************************************************)
NoOut == [st |-> "none"]

IdlePrefix == vpIn = <<>> /\ vpFlag = FALSE /\ vpOut = NoOut
IdleRetr   == rq = NoOut /\ rOut = NoOut
IdleBuild  == cfg = NoOut /\ lastCall = NoOut /\ srv = NoOut /\ nCalls = 0
IdleRun    == /\ pc = "idle" /\ lsn = "none" /\ sdn = "none" /\ sigc = 0
              /\ ctx = NoOut /\ conns = 0 /\ served = NoOut

(***************************************************************************)
(* SpecPrefix: validPrefix applied to every short string                   *)
(***************************************************************************)
PrefixChars == {"/", "a", "V", "1"}

InitPrefix ==
    /\ vpIn \in StringsUpTo(PrefixChars, MaxLen)
    /\ vpFlag \in BOOLEAN
    /\ vpOut = NoOut
    /\ IdleRetr /\ IdleBuild /\ IdleRun

CallValidPrefix ==
    /\ vpOut = NoOut
    /\ vpOut' = [st |-> "done", res |-> validPrefix(vpIn, vpFlag)]
    /\ UNCHANGED <<vpIn, vpFlag, rq, rOut, cfg, lastCall, srv,
                   pc, lsn, sdn, sigc, ctx, conns, served, nCalls>>

NextPrefix == CallValidPrefix

SpecPrefix == InitPrefix /\ [][NextPrefix]_vars

\* C1: for every input matching ^[/]?[a-z][a-z0-9]*[/]?$ after lower-casing,
\* validPrefix(prefix, true) returns a string that starts with "/" and ends
\* with "/".
C1_StartsAndEndsWithSlash ==
    (vpOut.st = "done" /\ vpFlag /\ MatchesPrefixRegexp(ToLower(vpIn)))
        => /\ ~vpOut.res.panic
           /\ Len(vpOut.res.val) >= 1
           /\ vpOut.res.val[1] = "/"
           /\ vpOut.res.val[Len(vpOut.res.val)] = "/"

(***************************************************************************)
(* Config and APISpecification                                             *)
(***************************************************************************)
MaxCalls == 3        \* builder calls made on one Config

S_api    == <<"a", "p", "i">>
S_health == <<"h", "e", "a", "l", "t", "h">>

DefaultExitTimeout  == 10
DefaultReadTimeout  == 15
DefaultWriteTimeout == 15

\* the handler id of the package's own healthCheck function; the handlers a
\* caller passes in are distinct function values, numbered by the call.
healthCheck == 0

\* NewConfig with no environment variable set
NewConfig ==
    [st           |-> "config",
     apiPrefix    |-> validPrefix(S_api, TRUE).val,
     healthPath   |-> validPrefix(S_health, FALSE).val,
     scheme       |-> "http",
     exitTimeout  |-> DefaultExitTimeout,
     readTimeout  |-> DefaultReadTimeout,
     writeTimeout |-> DefaultWriteTimeout,
     hc           |-> healthCheck,
     specs        |-> <<>>]

\* what a builder call did: op(arg) on specification `target` returned the
\* specification `ret` (0: none) or panicked; `before` is c.specs before it.
Call(op, arg, target, ret, panicked, before) ==
    [st |-> "call", op |-> op, arg |-> arg, target |-> target, ret |-> ret,
     panic |-> panicked, before |-> before]

CanCall == cfg.st = "config" /\ srv = NoOut /\ nCalls < MaxCalls

\* the loop over a.gets / a.posts comparing path with p.path
HasPath(paths, path) == \E i \in 1..Len(paths) : paths[i].path = path

\* the body shared by AddGetPath and AddPostPath: lower-case the path, panic
\* if the list holds it, append otherwise.
appendPathNoCheck(paths, path, h) ==
    Ret(Append(paths, [path |-> ToLower(path), handler |-> h]))

appendPath(paths, path, h) ==
    LET lower == ToLower(path)
    IN  IF HasPath(paths, lower)
        THEN [panic |-> TRUE, val |-> paths]
        ELSE Ret(Append(paths, [path |-> lower, handler |-> h]))

ApiPathPrefix(prefix) ==
    /\ CanCall
    /\ LET r == validPrefix(prefix, TRUE)
       IN  /\ cfg' = IF r.panic THEN cfg ELSE [cfg EXCEPT !.apiPrefix = r.val]
           /\ lastCall' = Call("ApiPathPrefix", prefix, 0, 0, r.panic, cfg.specs)
    /\ nCalls' = nCalls + 1
    /\ UNCHANGED <<vpIn, vpFlag, vpOut, rq, rOut, srv,
                   pc, lsn, sdn, sigc, ctx, conns, served>>

HealthcheckPath(path) ==
    /\ CanCall
    /\ LET r == validPrefix(path, FALSE)
       IN  /\ cfg' = IF r.panic THEN cfg ELSE [cfg EXCEPT !.healthPath = r.val]
           /\ lastCall' = Call("HealthcheckPath", path, 0, 0, r.panic, cfg.specs)
    /\ nCalls' = nCalls + 1
    /\ UNCHANGED <<vpIn, vpFlag, vpOut, rq, rOut, srv,
                   pc, lsn, sdn, sigc, ctx, conns, served>>

Scheme(scheme) ==
    /\ CanCall
    /\ cfg' = [cfg EXCEPT !.scheme = scheme]
    /\ lastCall' = Call("Scheme", <<>>, 0, 0, FALSE, cfg.specs)
    /\ nCalls' = nCalls + 1
    /\ UNCHANGED <<vpIn, vpFlag, vpOut, rq, rOut, srv,
                   pc, lsn, sdn, sigc, ctx, conns, served>>

HealthCheck ==
    /\ CanCall
    /\ cfg' = [cfg EXCEPT !.hc = nCalls + 1]
    /\ lastCall' = Call("HealthCheck", <<>>, 0, 0, FALSE, cfg.specs)
    /\ nCalls' = nCalls + 1
    /\ UNCHANGED <<vpIn, vpFlag, vpOut, rq, rOut, srv,
                   pc, lsn, sdn, sigc, ctx, conns, served>>

\* The result of NewSpecification on the list specs: the list afterwards and
\* the index in it of the *APISpecification returned.
newSpecification(specs, prefix) ==
    LET r == validPrefix(prefix, TRUE)
    IN  IF Len(prefix) = 0 \/ r.panic
        THEN [panic |-> TRUE, specs |-> specs, ret |-> 0]
        ELSE [panic |-> FALSE,
              specs |-> Append(specs, [prefix |-> r.val, gets |-> <<>>, posts |-> <<>>]),
              ret   |-> Len(specs) + 1]

NewSpecification(prefix) ==
    /\ CanCall
    /\ LET r == newSpecification(cfg.specs, prefix)
       IN  /\ cfg' = [cfg EXCEPT !.specs = r.specs]
           /\ lastCall' = Call("NewSpecification", prefix, 0, r.ret, r.panic, cfg.specs)
    /\ nCalls' = nCalls + 1
    /\ UNCHANGED <<vpIn, vpFlag, vpOut, rq, rOut, srv,
                   pc, lsn, sdn, sigc, ctx, conns, served>>

\* a.AddGetPath(path, h) on the specification a == c.specs[i]
AddGetPath(i, path) ==
    /\ CanCall
    /\ i \in 1..Len(cfg.specs)
    /\ LET r == appendPath(cfg.specs[i].gets, path, nCalls + 1)
       IN  /\ cfg' = [cfg EXCEPT !.specs[i].gets = r.val]
           /\ lastCall' = Call("AddGetPath", path, i, IF r.panic THEN 0 ELSE i,
                               r.panic, cfg.specs)
    /\ nCalls' = nCalls + 1
    /\ UNCHANGED <<vpIn, vpFlag, vpOut, rq, rOut, srv,
                   pc, lsn, sdn, sigc, ctx, conns, served>>

\* a.AddPostPath(path, h) on the specification a == c.specs[i]
AddPostPath(i, path) ==
    /\ CanCall
    /\ i \in 1..Len(cfg.specs)
    /\ LET r == appendPath(cfg.specs[i].posts, path, nCalls + 1)
       IN  /\ cfg' = [cfg EXCEPT !.specs[i].posts = r.val]
           /\ lastCall' = Call("AddPostPath", path, i, IF r.panic THEN 0 ELSE i,
                               r.panic, cfg.specs)
    /\ nCalls' = nCalls + 1
    /\ UNCHANGED <<vpIn, vpFlag, vpOut, rq, rOut, srv,
                   pc, lsn, sdn, sigc, ctx, conns, served>>

(***************************************************************************)
(* Server.init: the route table                                            *)
(***************************************************************************)
Second == 1000000000     \* time.Second, in nanoseconds

\* A time.Duration is an int64 count of nanoseconds; it is kept as whole
\* seconds and the remaining nanoseconds so that no product leaves the range
\* of the model checker's integers.
Duration(n) == [s |-> n \div Second, ns |-> n % Second]

\* d * time.Second, for a duration d below one second
TimesSecond(d) == [s |-> d.s * Second + d.ns, ns |-> 0]

RECURSIVE TrimRightSlash(_)
\* strings.TrimRight(s, "/")
TrimRightSlash(s) ==
    IF Len(s) > 0 /\ s[Len(s)] = "/"
    THEN TrimRightSlash(SubSeq(s, 1, Len(s) - 1))
    ELSE s

\* The template of a route made on a subrouter: gorilla/mux joins the
\* parent's path template, stripped of trailing slashes, and the route's own.
JoinTpl(parent, tpl) == TrimRightSlash(parent) \o tpl

IsPrefix(p, s) == Len(p) <= Len(s) /\ SubSeq(s, 1, Len(p)) = p

\* d.PathPrefix(config.apiPrefix).Methods("GET").Schemes(config.scheme).Subrouter()
getSubrouter(config) ==
    [tpl |-> config.apiPrefix, method |-> "GET", scheme |-> config.scheme,
     json |-> FALSE]

\* d.PathPrefix(config.apiPrefix).HeadersRegexp("Content-Type", "application/json").
\*   Methods("POST").Schemes(config.scheme).Subrouter()
postSubrouterNoHeader(config) ==
    [tpl |-> config.apiPrefix, method |-> "POST", scheme |-> config.scheme,
     json |-> FALSE]

postSubrouter(config) ==
    [tpl |-> config.apiPrefix, method |-> "POST", scheme |-> config.scheme,
     json |-> TRUE]

\* addMethodSpecification: one route per path on r.PathPrefix(prefix).Subrouter().
\* Each route's handler is a closure over the range variable `path`: where the
\* language gives every iteration its own variable (perIter) the closure calls
\* paths[i].handler, where the loop has one variable it calls the handler of
\* the last path.  `bound` is the handler that was supplied for the path.
addMethodSpecification(prefix, r, paths, perIter) ==
    IF Len(paths) > 0
    THEN LET api == JoinTpl(r.tpl, prefix)
         IN  [i \in 1..Len(paths) |->
                [prefixes |-> <<r.tpl, api>>,
                 tpl      |-> JoinTpl(api, paths[i].path),
                 method   |-> r.method,
                 scheme   |-> r.scheme,
                 json     |-> r.json,
                 via      |-> r.method,
                 bound    |-> paths[i].handler,
                 handler  |-> IF perIter THEN paths[i].handler
                              ELSE paths[Len(paths)].handler]]
    ELSE <<>>

\* get.HandleFunc(fmt.Sprintf("/%s", config.healthPath), config.hc).Methods("GET")
healthRoute(config, get) ==
    [prefixes |-> <<get.tpl>>,
     tpl      |-> JoinTpl(get.tpl, <<"/">> \o config.healthPath),
     method   |-> "GET",
     scheme   |-> get.scheme,
     json     |-> get.json,
     via      |-> "health",
     bound    |-> config.hc,
     handler  |-> config.hc]

RECURSIVE registerSpecsNoCheck(_, _, _, _, _, _, _, _)
registerSpecsNoCheck(specs, k, registered, gets, posts, get, post, perIter) ==
    IF k > Len(specs)
    THEN [err |-> FALSE, prefix |-> <<>>, gets |-> gets, posts |-> posts]
    ELSE registerSpecsNoCheck(specs, k + 1, registered \cup {specs[k].prefix},
            gets \o addMethodSpecification(specs[k].prefix, get, specs[k].gets, perIter),
            posts \o addMethodSpecification(specs[k].prefix, post, specs[k].posts, perIter),
            get, post, perIter)

RECURSIVE registerSpecs(_, _, _, _, _, _, _, _)
\* the loop of init over config.specs from the k-th on: an error at the first
\* prefix already in `registered`, the routes of every specification otherwise
registerSpecs(specs, k, registered, gets, posts, get, post, perIter) ==
    IF k > Len(specs)
    THEN [err |-> FALSE, prefix |-> <<>>, gets |-> gets, posts |-> posts]
    ELSE IF specs[k].prefix \in registered
    THEN [err |-> TRUE, prefix |-> specs[k].prefix, gets |-> gets, posts |-> posts]
    ELSE registerSpecs(specs, k + 1, registered \cup {specs[k].prefix},
            gets \o addMethodSpecification(specs[k].prefix, get, specs[k].gets, perIter),
            posts \o addMethodSpecification(specs[k].prefix, post, specs[k].posts, perIter),
            get, post, perIter)

\* NewServer(config): s.init(&config); the Server, or the error and no Server.
\* The routes are listed in the order the router tries them: the GET
\* subrouter's (specifications in order, then the health check), then the
\* POST subrouter's.
init(config, perIter) ==
    LET get  == getSubrouter(config)
        post == postSubrouter(config)
        reg  == registerSpecs(config.specs, 1, {}, <<>>, <<>>, get, post, perIter)
    IN  IF reg.err
        THEN [st |-> "error", prefix |-> reg.prefix]
        ELSE [st           |-> "server",
              exitTimeout  |-> config.exitTimeout,
              routes       |-> reg.gets \o <<healthRoute(config, get)>> \o reg.posts,
              writeTimeout |-> TimesSecond(Duration(config.writeTimeout)),
              readTimeout  |-> TimesSecond(Duration(config.readTimeout))]

NewServer ==
    /\ cfg.st = "config"
    /\ srv = NoOut
    /\ \E perIter \in BOOLEAN : srv' = init(cfg, perIter)
    /\ lastCall' = Call("NewServer", <<>>, 0, 0, FALSE, cfg.specs)
    /\ UNCHANGED <<vpIn, vpFlag, vpOut, rq, rOut, cfg,
                   pc, lsn, sdn, sigc, ctx, conns, served, nCalls>>

(***************************************************************************)
(* Serving a request: the router built by init                             *)
(***************************************************************************)
RECURSIVE cleanPath(_)
\* mux cleans the request path before matching; on the paths of this model
\* (no "." segments) that collapses runs of slashes.
cleanPath(p) ==
    IF Len(p) < 2 THEN p
    ELSE IF p[1] = "/" /\ p[2] = "/" THEN cleanPath(Tail(p))
    ELSE <<p[1]>> \o cleanPath(Tail(p))

\* HeadersRegexp("Content-Type", "application/json"): the header is present
\* and the (unanchored) pattern matches its value.  A header value is the
\* sequence of its parts, <<>> when the header is absent.
MatchesJSON(ct) == \E i \in 1..Len(ct) : ct[i] = "application/json"

routeMatches(rt, req) ==
    /\ \A i \in 1..Len(rt.prefixes) : IsPrefix(rt.prefixes[i], req.path)
    /\ req.path = rt.tpl
    /\ req.method = rt.method
    /\ req.scheme = rt.scheme
    /\ rt.json => MatchesJSON(req.ct)

NoHandler(kind) ==
    [kind |-> kind, handler |-> -1, via |-> "", bound |-> -1, tpl |-> <<>>]

\* Router.ServeHTTP: redirect an unclean path, else run the handler of the
\* first route that matches, else answer not found / not allowed.
ServeHTTP(routes, req) ==
    IF cleanPath(req.path) # req.path THEN NoHandler("redirect")
    ELSE IF \E i \in 1..Len(routes) : routeMatches(routes[i], req)
    THEN LET i == CHOOSE i \in 1..Len(routes) :
                    /\ routeMatches(routes[i], req)
                    /\ \A j \in 1..(i - 1) : ~routeMatches(routes[j], req)
         IN  [kind |-> "handler", handler |-> routes[i].handler,
              via |-> routes[i].via, bound |-> routes[i].bound,
              tpl |-> routes[i].tpl]
    ELSE NoHandler("notfound")

ReqMethods == {"GET", "POST"}
ReqSchemes == {"http", "https"}
ReqContentTypes ==
    {<<>>, <<"text/plain">>, <<"application/json", "; charset=utf-8">>}
S_api_health == <<"/">> \o S_api \o <<"/">> \o S_health
FixedReqPaths == {S_api_health, <<"/", "v", "1", "/", "p">>}
ReqPaths ==
    FixedReqPaths \cup
        (IF srv.st = "server"
         THEN {srv.routes[i].tpl : i \in 1..Len(srv.routes)} ELSE {})

\* The router keeps no state between requests: one request is followed.
Dispatch(req) ==
    /\ srv.st = "server"
    /\ served = NoOut
    /\ served' = [st |-> "served", req |-> req, out |-> ServeHTTP(srv.routes, req)]
    /\ UNCHANGED <<vpIn, vpFlag, vpOut, rq, rOut, cfg, lastCall, srv,
                   pc, lsn, sdn, sigc, ctx, conns, nCalls>>

(***************************************************************************)
(* getRetriever: the path variable retriever handed to every handler       *)
(***************************************************************************)
MaxVarLen == 2       \* longest path variable value in the retriever harness

\* An integer is kept as its canonical decimal numeral, a "-" for a negative
\* value and the magnitude without leading zeros (<<"0">> for zero), so that
\* 32 and 64 bit values are exact.
Num(neg, mag) == IF neg THEN <<"-">> \o mag ELSE mag

RECURSIVE StripZeros(_)
StripZeros(ds) ==
    IF Len(ds) > 1 /\ ds[1] = "0" THEN StripZeros(Tail(ds)) ELSE ds

DigitVal(c) ==
    CASE c = "0" -> 0 [] c = "1" -> 1 [] c = "2" -> 2 [] c = "3" -> 3
      [] c = "4" -> 4 [] c = "5" -> 5 [] c = "6" -> 6 [] c = "7" -> 7
      [] c = "8" -> 8 [] c = "9" -> 9

RECURSIVE DigitsLess(_, _)
\* a < b for magnitudes without leading zeros
DigitsLess(a, b) ==
    IF Len(a) # Len(b) THEN Len(a) < Len(b)
    ELSE IF a = <<>> THEN FALSE
    ELSE IF a[1] # b[1] THEN DigitVal(a[1]) < DigitVal(b[1])
    ELSE DigitsLess(Tail(a), Tail(b))

\* 1 << (bitSize - 1), and the value just below it
Cutoff(bitSize) ==
    IF bitSize = 32
    THEN <<"2", "1", "4", "7", "4", "8", "3", "6", "4", "8">>
    ELSE <<"9", "2", "2", "3", "3", "7", "2", "0", "3", "6",
           "8", "5", "4", "7", "7", "5", "8", "0", "8">>
CutoffMinusOne(bitSize) ==
    IF bitSize = 32
    THEN <<"2", "1", "4", "7", "4", "8", "3", "6", "4", "7">>
    ELSE <<"9", "2", "2", "3", "3", "7", "2", "0", "3", "6",
           "8", "5", "4", "7", "7", "5", "8", "0", "7">>

\* strconv.ParseInt(s, 10, bitSize): an optional sign, then decimal digits;
\* a syntax error gives 0, a range error the nearest value of the width.
ParseInt(s, bitSize) ==
    LET signed == Len(s) > 0 /\ s[1] \in {"+", "-"}
        neg    == Len(s) > 0 /\ s[1] = "-"
        ds     == IF signed THEN Tail(s) ELSE s
        mag    == StripZeros(ds)
    IN  IF ds = <<>> \/ \E i \in 1..Len(ds) : ds[i] \notin Digits
        THEN [n |-> Num(FALSE, <<"0">>), err |-> "syntax"]
        ELSE IF ~neg /\ ~DigitsLess(mag, Cutoff(bitSize))
        THEN [n |-> Num(FALSE, CutoffMinusOne(bitSize)), err |-> "range"]
        ELSE IF neg /\ DigitsLess(Cutoff(bitSize), mag)
        THEN [n |-> Num(TRUE, Cutoff(bitSize)), err |-> "range"]
        ELSE [n |-> Num(neg /\ mag # <<"0">>, mag), err |-> "none"]

\* strconv.Atoi(s): ParseInt(s, 10, 0), at the width of int on the platform
Atoi(s, intSize) == ParseInt(s, intSize)

\* A value of type interface{}: its dynamic type and its value; a pointer is
\* kept as the value it points to.
Value(type, val) == [type |-> type, val |-> val]
Nil == Value("nil", <<>>)

\* the (interface{}, error) pair a retriever returns
Result(val, err) == [val |-> val, err |-> err]

\* The retriever of a request whose path variables are m (mux.Vars(req)),
\* called with variableName and defaultValue; intSize is the width of int.
retrieveNoLower(m, variableName, defaultValue, intSize) ==
    IF variableName \notin DOMAIN m THEN Result(defaultValue, "none")
    ELSE Result(Value("string", m[variableName]), "none")

retrieveConvertsAll(m, variableName, defaultValue, intSize) ==
    LET name == ToLower(variableName)
    IN  IF name \notin DOMAIN m THEN Result(defaultValue, "none")
        ELSE IF defaultValue.type \in {"int", "*int", "int32", "*int32", "int64", "*int64"}
        THEN LET r == ParseInt(m[name], 64)
             IN  Result(Value("int64", r.n), r.err)
        ELSE Result(Value("string", m[name]), "none")

retrieve(m, variableName, defaultValue, intSize) ==
    LET name == ToLower(variableName)
    IN  IF name \notin DOMAIN m THEN Result(defaultValue, "none")
        ELSE LET s == m[name]
                 t == defaultValue.type
             IN  IF t = "nil" THEN Result(Value("string", s), "none")
                 ELSE IF t = "string" THEN Result(Value("string", s), "none")
                 ELSE IF t = "int"
                 THEN LET r == Atoi(s, intSize)
                      IN  Result(Value("int", r.n), r.err)
                 ELSE IF t = "*int"
                 THEN LET r == Atoi(s, intSize)
                      IN  IF r.err # "none" THEN Result(Nil, r.err)
                          ELSE Result(Value("*int", r.n), "none")
                 ELSE IF t = "int32"
                 THEN LET r == ParseInt(s, 32)
                      IN  Result(Value("int64", r.n), r.err)
                 ELSE IF t = "*int32"
                 THEN LET r == ParseInt(s, 32)
                      IN  IF r.err # "none" THEN Result(Nil, r.err)
                          ELSE Result(Value("*int64", r.n), "none")
                 ELSE IF t = "int64"
                 THEN LET r == ParseInt(s, 64)
                      IN  Result(Value("int64", r.n), r.err)
                 ELSE IF t = "*int64"
                 THEN LET r == ParseInt(s, 64)
                      IN  IF r.err # "none" THEN Result(Nil, r.err)
                          ELSE Result(Value("*int64", r.n), "none")
                 ELSE Result(Nil, "unsupported")

(***************************************************************************)
(* SpecRetr: the retriever applied to small requests                       *)
(***************************************************************************)
VarChars == {"-", "0", "7", "x"}
VarNames == {<<"p">>, <<"P">>, <<"q">>}

\* mux.Vars(req): no variable, or the variable "p" with a value
VarMaps ==
    {<<>>} \cup {[n \in {<<"p">>} |-> v] : v \in StringsUpTo(VarChars, MaxVarLen)}

Seven == Num(FALSE, <<"7">>)
SupportedTypes   == {"nil", "string", "int", "*int", "int32", "*int32", "int64", "*int64"}
UnsupportedTypes == {"bool", "float64", "uint"}
Defaults ==
    {Nil, Value("string", <<"x">>), Value("bool", <<"t">>),
     Value("float64", Seven), Value("uint", Seven)}
    \cup {Value(t, Seven) : t \in {"int", "*int", "int32", "*int32", "int64", "*int64"}}

InitRetr ==
    /\ rq \in [m : VarMaps, name : VarNames, def : Defaults, intSize : {32, 64}]
    /\ rOut = NoOut
    /\ IdlePrefix /\ IdleBuild /\ IdleRun

CallRetriever ==
    /\ rOut = NoOut
    /\ rOut' = [st |-> "done", res |-> retrieve(rq.m, rq.name, rq.def, rq.intSize)]
    /\ UNCHANGED <<vpIn, vpFlag, vpOut, rq, cfg, lastCall, srv,
                   pc, lsn, sdn, sigc, ctx, conns, served, nCalls>>

NextRetr == CallRetriever

SpecRetr == InitRetr /\ [][NextRetr]_vars

Present == ToLower(rq.name) \in DOMAIN rq.m
VarString == rq.m[ToLower(rq.name)]

\* an optional sign followed by one or more decimal digits
IsDecimal(s) ==
    LET ds == IF Len(s) > 0 /\ s[1] \in {"+", "-"} THEN Tail(s) ELSE s
    IN  ds # <<>> /\ \A i \in 1..Len(ds) : ds[i] \in Digits

RECURSIVE NatOf(_)
NatOf(ds) ==
    IF ds = <<>> THEN 0
    ELSE 10 * NatOf(SubSeq(ds, 1, Len(ds) - 1)) + DigitVal(ds[Len(ds)])

\* the integer a decimal string denotes, and the integer a Num denotes
IntOfString(s) ==
    IF s[1] = "-" THEN 0 - NatOf(Tail(s))
    ELSE IF s[1] = "+" THEN NatOf(Tail(s)) ELSE NatOf(s)
IntOfNum(n) == IF n[1] = "-" THEN 0 - NatOf(Tail(n)) ELSE NatOf(n)

\* C7: an absent variable gives the default and no error; a present one gives,
\* for an int default, the integer its string denotes or a conversion error
\* when the string is no decimal integer, and for a nil or string default the
\* string itself.
C7_Retrieval ==
    rOut.st = "done" =>
        /\ ~Present => rOut.res = Result(rq.def, "none")
        /\ (Present /\ rq.def.type = "int") =>
              IF IsDecimal(VarString)
              THEN /\ rOut.res.err = "none"
                   /\ rOut.res.val.type = "int"
                   /\ IntOfNum(rOut.res.val.val) = IntOfString(VarString)
                   /\ rOut.res.val.val \in Seq(Digits \cup {"-"})
              ELSE rOut.res.err \in {"syntax", "range"}
        /\ (Present /\ rq.def.type \in {"nil", "string"}) =>
              rOut.res = Result(Value("string", VarString), "none")

C7_Witness ==
    /\ rOut.st = "done"
    /\ Present
    /\ rq.name # ToLower(rq.name)
    /\ rq.def.type = "int"
    /\ rOut.res.err = "none"
    /\ rOut.res.val.val = <<"-", "7">>

\* C10 as stated: a default of an unsupported type gives the unsupported-type
\* error whether or not the variable is present.
C10_UnsupportedAlways ==
    (rOut.st = "done" /\ rq.def.type \notin SupportedTypes)
        => rOut.res.err = "unsupported"

\* C10 as amended: a default of an unsupported type gives the unsupported-type
\* error (and a nil value) when the variable is present; when it is absent the
\* default is returned with no error.
C10_UnsupportedWhenPresent ==
    (rOut.st = "done" /\ rq.def.type \notin SupportedTypes)
        => IF Present
           THEN rOut.res = Result(Nil, "unsupported")
           ELSE rOut.res = Result(rq.def, "none")

C10_Witness ==
    /\ rOut.st = "done"
    /\ rq.def.type \in UnsupportedTypes
    /\ Present
    /\ rOut.res.err = "unsupported"

(***************************************************************************)
(* Spec: build a Config, make the Server, serve requests                   *)
(***************************************************************************)
ApiPrefixInputs  == {<<"a", "/">>, <<"1">>}
HealthPathInputs == {<<"h">>}
SpecPrefixInputs == {<<"v", "1">>, <<"V", "1">>, <<"/", "v", "1">>, <<"a">>, <<>>}
PathInputs       == {<<"/", "p">>, <<"/", "P">>, <<"/", "q">>}

Init ==
    /\ cfg = NewConfig
    /\ lastCall = NoOut
    /\ srv = NoOut
    /\ nCalls = 0
    /\ served = NoOut
    /\ IdlePrefix /\ IdleRetr
    /\ pc = "idle" /\ lsn = "none" /\ sdn = "none" /\ sigc = 0
    /\ ctx = NoOut /\ conns = 0

Next ==
    \/ \E p \in ApiPrefixInputs : ApiPathPrefix(p)
    \/ \E p \in HealthPathInputs : HealthcheckPath(p)
    \/ \E s \in ReqSchemes : Scheme(s)
    \/ HealthCheck
    \/ \E p \in SpecPrefixInputs : NewSpecification(p)
    \/ \E i \in 1..MaxCalls, p \in PathInputs : AddGetPath(i, p)
    \/ \E i \in 1..MaxCalls, p \in PathInputs : AddPostPath(i, p)
    \/ NewServer
    \/ \E m \in ReqMethods, s \in ReqSchemes, ct \in ReqContentTypes, p \in ReqPaths :
          Dispatch([method |-> m, scheme |-> s, ct |-> ct, path |-> p])

Spec == Init /\ [][Next]_vars

\* C2: NewSpecification(p) on a Config that already holds a specification
\* with the (normalized) prefix p returns that specification and appends
\* nothing, so no two specifications of the list share a prefix.
C2_GetOrCreateIdempotent ==
    /\ (lastCall.st = "call" /\ lastCall.op = "NewSpecification" /\ ~lastCall.panic)
         => LET p == validPrefix(lastCall.arg, TRUE).val
                held == {j \in 1..Len(lastCall.before) : lastCall.before[j].prefix = p}
            IN  held # {} => /\ lastCall.ret \in held
                             /\ cfg.specs = lastCall.before
    /\ cfg.st = "config" =>
         \A i, j \in 1..Len(cfg.specs) :
             i # j => cfg.specs[i].prefix # cfg.specs[j].prefix

HasDuplicatePrefix(specs) ==
    \E i, j \in 1..Len(specs) : i < j /\ specs[i].prefix = specs[j].prefix

\* C3: NewServer returns the error "attempt to register <prefix> twice" and no
\* Server exactly when two specifications of the Config share a prefix, and
\* the prefix it names is one that occurs twice.
C3_DuplicatePrefixRejected ==
    srv # NoOut =>
        /\ srv.st = "error" <=> HasDuplicatePrefix(cfg.specs)
        /\ srv.st = "server" <=> ~HasDuplicatePrefix(cfg.specs)
        /\ srv.st = "error" =>
              Cardinality({k \in 1..Len(cfg.specs) : cfg.specs[k].prefix = srv.prefix}) >= 2

C3_Witness ==
    /\ srv # NoOut
    /\ srv.st = "error"
    /\ HasDuplicatePrefix(cfg.specs)

PathsOf(list) == {list[i].path : i \in 1..Len(list)}

\* C4: AddGetPath (AddPostPath) with a path whose lower-cased form is already
\* in the GET (POST) list panics and changes no list; no method list holds a
\* path twice, and every stored path is lower-case.
C4_DuplicatePathFatal ==
    /\ (lastCall.st = "call" /\ lastCall.op = "AddGetPath"
          /\ ToLower(lastCall.arg) \in PathsOf(lastCall.before[lastCall.target].gets))
         => lastCall.panic /\ cfg.specs = lastCall.before
    /\ (lastCall.st = "call" /\ lastCall.op = "AddPostPath"
          /\ ToLower(lastCall.arg) \in PathsOf(lastCall.before[lastCall.target].posts))
         => lastCall.panic /\ cfg.specs = lastCall.before
    /\ cfg.st = "config" =>
         \A k \in 1..Len(cfg.specs) :
            LET sp == cfg.specs[k]
            IN  /\ \A i, j \in 1..Len(sp.gets) :
                       i # j => sp.gets[i].path # sp.gets[j].path
                /\ \A i, j \in 1..Len(sp.posts) :
                       i # j => sp.posts[i].path # sp.posts[j].path
                /\ \A i \in 1..Len(sp.gets) : ToLower(sp.gets[i].path) = sp.gets[i].path
                /\ \A i \in 1..Len(sp.posts) : ToLower(sp.posts[i].path) = sp.posts[i].path

C4_Witness ==
    /\ lastCall.st = "call"
    /\ lastCall.op = "AddGetPath"
    /\ lastCall.panic
    /\ lastCall.arg # ToLower(lastCall.arg)
    /\ Len(cfg.specs[lastCall.target].gets) = 1

\* C5: on a Config with no override, a GET on the configured scheme to
\* /api/health is dispatched to the default health-check handler.
C5_HealthRouteServed ==
    (/\ served.st = "served"
     /\ cfg = [NewConfig EXCEPT !.specs = cfg.specs]
     /\ served.req.method = "GET"
     /\ served.req.scheme = cfg.scheme
     /\ served.req.path = S_api_health)
        => /\ served.out.kind = "handler"
           /\ served.out.handler = healthCheck

HandlersOf(list) == {list[i].handler : i \in 1..Len(list)}
PostHandlers == UNION {HandlersOf(cfg.specs[k].posts) : k \in 1..Len(cfg.specs)}
GetHandlers  == UNION {HandlersOf(cfg.specs[k].gets) : k \in 1..Len(cfg.specs)}

\* C6: a handler added with AddPostPath runs only for a POST on the configured
\* scheme whose Content-Type header matches application/json; a handler added
\* with AddGetPath runs only for a GET on the configured scheme.
C6_MethodAndContentType ==
    (served.st = "served" /\ served.out.kind = "handler") =>
        /\ served.out.handler \in PostHandlers =>
              /\ served.req.method = "POST"
              /\ served.req.scheme = cfg.scheme
              /\ \E i \in 1..Len(served.req.ct) : served.req.ct[i] = "application/json"
        /\ served.out.handler \in GetHandlers =>
              /\ served.req.method = "GET"
              /\ served.req.scheme = cfg.scheme

C6_Witness ==
    /\ served.st = "served"
    /\ served.out.kind = "handler"
    /\ served.out.handler \in PostHandlers
    /\ cfg.scheme = "https"

(***************************************************************************)
(* The timeouts of the Config                                              *)
(***************************************************************************)
MaxTimeout == 2      \* largest timeout set explicitly, in seconds

ExitTimeout(seconds) ==
    /\ CanCall
    /\ cfg' = IF seconds < 0 THEN cfg ELSE [cfg EXCEPT !.exitTimeout = seconds]
    /\ lastCall' = Call("ExitTimeout", <<>>, 0, 0, seconds < 0, cfg.specs)
    /\ nCalls' = nCalls + 1
    /\ UNCHANGED <<vpIn, vpFlag, vpOut, rq, rOut, srv,
                   pc, lsn, sdn, sigc, ctx, conns, served>>

ReadTimeout(seconds) ==
    /\ CanCall
    /\ cfg' = IF seconds < 0 THEN cfg ELSE [cfg EXCEPT !.readTimeout = seconds]
    /\ lastCall' = Call("ReadTimeout", <<>>, 0, 0, seconds < 0, cfg.specs)
    /\ nCalls' = nCalls + 1
    /\ UNCHANGED <<vpIn, vpFlag, vpOut, rq, rOut, srv,
                   pc, lsn, sdn, sigc, ctx, conns, served>>

WriteTimeout(seconds) ==
    /\ CanCall
    /\ cfg' = IF seconds < 0 THEN cfg ELSE [cfg EXCEPT !.writeTimeout = seconds]
    /\ lastCall' = Call("WriteTimeout", <<>>, 0, 0, seconds < 0, cfg.specs)
    /\ nCalls' = nCalls + 1
    /\ UNCHANGED <<vpIn, vpFlag, vpOut, rq, rOut, srv,
                   pc, lsn, sdn, sigc, ctx, conns, served>>

(***************************************************************************)
(* Server.Start: the listener goroutine, SIGINT, the Shutdown goroutine    *)
(***************************************************************************)
MaxConns == 1        \* client connections open at once

\* context.WithTimeout(context.Background(), d): a context with a deadline d
\* from now, done at once when d is not positive.
WithoutDeadline(d) ==
    [st |-> "ctx", timeout |-> d, deadline |-> FALSE, done |-> FALSE]

WithTimeout(d) ==
    [st |-> "ctx", timeout |-> d, deadline |-> TRUE,
     done |-> (d.s = 0 /\ d.ns = 0)]

\* the deadline Start gives the context: time.Duration(s.exitTimeout)
exitDeadline(s) == Duration(s.exitTimeout)

\* go func() { s.srv.ListenAndServe() }()
StartGo ==
    /\ pc = "idle"
    /\ srv.st = "server"
    /\ lsn = "none"
    /\ lsn' = "spawned"
    /\ pc' = "notify"
    /\ UNCHANGED <<vpIn, vpFlag, vpOut, rq, rOut, cfg, lastCall, srv,
                   sdn, sigc, ctx, conns, served, nCalls>>

\* c := make(chan os.Signal, 1); signal.Notify(c, os.Interrupt)
StartNotify ==
    /\ pc = "notify"
    /\ pc' = "waitSig"
    /\ UNCHANGED <<vpIn, vpFlag, vpOut, rq, rOut, cfg, lastCall, srv,
                   lsn, sdn, sigc, ctx, conns, served, nCalls>>

\* A SIGINT reaches the process: before signal.Notify it ends the process,
\* afterwards it is sent on c unless c's buffer is full.
Sigint ==
    /\ pc \notin {"idle", "killed"}
    /\ sigc = 0
    /\ IF pc = "notify"
       THEN pc' = "killed" /\ UNCHANGED sigc
       ELSE sigc' = 1 /\ UNCHANGED pc
    /\ UNCHANGED <<vpIn, vpFlag, vpOut, rq, rOut, cfg, lastCall, srv,
                   lsn, sdn, ctx, conns, served, nCalls>>

\* <-c
StartReceive ==
    /\ pc = "waitSig"
    /\ sigc = 1
    /\ sigc' = 0
    /\ pc' = "gotSig"
    /\ UNCHANGED <<vpIn, vpFlag, vpOut, rq, rOut, cfg, lastCall, srv,
                   lsn, sdn, ctx, conns, served, nCalls>>

\* ctx, cancel := context.WithTimeout(context.Background(), time.Duration(s.exitTimeout))
StartContext ==
    /\ pc = "gotSig"
    /\ ctx' = WithTimeout(exitDeadline(srv))
    /\ pc' = "goShutdown"
    /\ UNCHANGED <<vpIn, vpFlag, vpOut, rq, rOut, cfg, lastCall, srv,
                   lsn, sdn, sigc, conns, served, nCalls>>

\* go s.srv.Shutdown(ctx)
StartGoShutdown ==
    /\ pc = "goShutdown"
    /\ sdn' = "spawned"
    /\ pc' = "waitCtx"
    /\ UNCHANGED <<vpIn, vpFlag, vpOut, rq, rOut, cfg, lastCall, srv,
                   lsn, sigc, ctx, conns, served, nCalls>>

\* <-ctx.Done(); s.logger.Println("stopped"); return
StartReturn ==
    /\ pc = "waitCtx"
    /\ ctx.done
    /\ pc' = "returned"
    /\ UNCHANGED <<vpIn, vpFlag, vpOut, rq, rOut, cfg, lastCall, srv,
                   lsn, sdn, sigc, ctx, conns, served, nCalls>>

\* the deadline of ctx passes
DeadlineElapses ==
    /\ pc # "killed"
    /\ ctx.st = "ctx"
    /\ ctx.deadline
    /\ ~ctx.done
    /\ ctx' = [ctx EXCEPT !.done = TRUE]
    /\ UNCHANGED <<vpIn, vpFlag, vpOut, rq, rOut, cfg, lastCall, srv,
                   pc, lsn, sdn, sigc, conns, served, nCalls>>

\* The listener goroutine runs ListenAndServe: it listens, or returns an error
\* at once (the address is taken, or Shutdown has begun: ErrServerClosed).
Listen ==
    /\ pc # "killed"
    /\ lsn = "spawned"
    /\ IF sdn \in {"polling", "done", "timedout"}
       THEN lsn' = "closed"
       ELSE lsn' \in {"listening", "failed"}
    /\ UNCHANGED <<vpIn, vpFlag, vpOut, rq, rOut, cfg, lastCall, srv,
                   pc, sdn, sigc, ctx, conns, served, nCalls>>

\* a client connects and sends a request that stays in flight
ConnOpen ==
    /\ pc # "killed"
    /\ lsn = "listening"
    /\ conns < MaxConns
    /\ conns' = conns + 1
    /\ UNCHANGED <<vpIn, vpFlag, vpOut, rq, rOut, cfg, lastCall, srv,
                   pc, lsn, sdn, sigc, ctx, served, nCalls>>

\* a connection finishes its request and closes
ConnClose ==
    /\ pc # "killed"
    /\ conns > 0
    /\ conns' = conns - 1
    /\ UNCHANGED <<vpIn, vpFlag, vpOut, rq, rOut, cfg, lastCall, srv,
                   pc, lsn, sdn, sigc, ctx, served, nCalls>>

\* The Shutdown goroutine starts: http.Server.Shutdown marks the server as
\* shutting down and closes its listeners.
ShutdownBegin ==
    /\ pc # "killed"
    /\ sdn = "spawned"
    /\ sdn' = "polling"
    /\ lsn' = IF lsn = "listening" THEN "closed" ELSE lsn
    /\ UNCHANGED <<vpIn, vpFlag, vpOut, rq, rOut, cfg, lastCall, srv,
                   pc, sigc, ctx, conns, served, nCalls>>

\* Shutdown returns nil once no connection is left open
ShutdownIdle ==
    /\ pc # "killed"
    /\ sdn = "polling"
    /\ conns = 0
    /\ sdn' = "done"
    /\ UNCHANGED <<vpIn, vpFlag, vpOut, rq, rOut, cfg, lastCall, srv,
                   pc, lsn, sigc, ctx, conns, served, nCalls>>

\* Shutdown returns ctx.Err() once ctx is done
ShutdownTimedOut ==
    /\ pc # "killed"
    /\ sdn = "polling"
    /\ ctx.done
    /\ sdn' = "timedout"
    /\ UNCHANGED <<vpIn, vpFlag, vpOut, rq, rOut, cfg, lastCall, srv,
                   pc, lsn, sigc, ctx, conns, served, nCalls>>

(***************************************************************************)
(* SpecRun: set the timeouts, make the Server, Start it, interrupt it      *)
(***************************************************************************)
InitRun == Init

NextRun ==
    \/ \E n \in -1..MaxTimeout : ExitTimeout(n)
    \/ \E n \in -1..MaxTimeout : ReadTimeout(n)
    \/ \E n \in -1..MaxTimeout : WriteTimeout(n)
    \/ NewServer
    \/ StartGo
    \/ StartNotify
    \/ Sigint
    \/ StartReceive
    \/ StartContext
    \/ StartGoShutdown
    \/ StartReturn
    \/ DeadlineElapses
    \/ Listen
    \/ ConnOpen
    \/ ConnClose
    \/ ShutdownBegin
    \/ ShutdownIdle
    \/ ShutdownTimedOut

SpecRun == InitRun /\ [][NextRun]_vars

\* The goroutine that called Start keeps running, and the timer of the
\* context fires.
SpecLive ==
    /\ InitRun /\ [][NextRun]_vars
    /\ WF_vars(StartReceive)
    /\ WF_vars(StartContext)
    /\ WF_vars(StartGoShutdown)
    /\ WF_vars(StartReturn)
    /\ WF_vars(DeadlineElapses)

\* C8: once Start has been called and a SIGINT has been delivered to it,
\* Start eventually returns, whatever the connections and the Shutdown
\* goroutine do.
C8_ShutdownLiveness == (pc = "waitSig" /\ sigc = 1) ~> (pc = "returned")

C8_Witness ==
    /\ pc = "returned"
    /\ conns > 0
    /\ sdn = "timedout"

\* C9: the deadline of the context that bounds the shutdown is the configured
\* exit timeout in seconds, the unit of the read and write timeouts of the
\* http.Server.
C9_ExitTimeoutInSeconds ==
    ctx.st = "ctx" =>
        /\ ctx.timeout = TimesSecond(Duration(cfg.exitTimeout))
        /\ srv.readTimeout = TimesSecond(Duration(cfg.readTimeout))
        /\ srv.writeTimeout = TimesSecond(Duration(cfg.writeTimeout))

\* C11: when the Shutdown goroutine completes before the deadline elapses the
\* context is done from that point on, so that Start is left waiting for the
\* deadline only while Shutdown has not completed.
C11_ShutdownCompletionUnblocksStart ==
    /\ (ctx.st = "ctx" /\ sdn = "done") => ctx.done
    /\ (pc = "waitCtx" /\ ~ctx.done) => sdn # "done"

\* C12: once Start has returned the Shutdown goroutine has begun closing the
\* listener, and the listener accepts no new connection.
C12_NoNewWorkAfterReturn ==
    pc = "returned" =>
        /\ sdn \in {"polling", "done", "timedout"}
        /\ lsn # "listening"

\* C13: a request matched by the route registered for a GET or POST path
\* binding invokes the handler that was supplied for that binding.
C13_PerPathHandlerDispatch ==
    (/\ served.st = "served"
     /\ served.out.kind = "handler"
     /\ served.out.via \in {"GET", "POST"})
        => served.out.handler = served.out.bound

\* regexp ^/[a-z][a-z0-9]*/$
MatchesCanonicalPrefix(s) ==
    /\ Len(s) >= 3
    /\ s[1] = "/"
    /\ s[Len(s)] = "/"
    /\ s[2] \in LowerLetters
    /\ \A i \in 3..(Len(s) - 1) : s[i] \in LowerLetters \cup Digits

\* C14: every prefix that validPrefix(prefix, true) accepts is stored in the
\* canonical form ^/[a-z][a-z0-9]*/$, with exactly one leading and exactly one
\* trailing slash.
C14_CanonicalPrefix ==
    (vpOut.st = "done" /\ vpFlag /\ ~vpOut.res.panic)
        => MatchesCanonicalPrefix(vpOut.res.val)

(***************************************************************************)
(* SpecRetrWide: the retriever applied to values at the limits of the      *)
(* 32 and 64 bit widths, with a default of each integer type               *)
(***************************************************************************)
IntDefaultTypes == {"int", "*int", "int32", "*int32", "int64", "*int64"}

\* the limits of each width, the values just outside them, and a small value
LimitValues ==
    {<<"7">>, <<"-", "7">>}
    \cup {CutoffMinusOne(b) : b \in {32, 64}}
    \cup {Cutoff(b) : b \in {32, 64}}
    \cup {<<"-">> \o Cutoff(b) : b \in {32, 64}}
    \cup {<<"-", "2", "1", "4", "7", "4", "8", "3", "6", "4", "9">>}

InitRetrWide ==
    /\ rq \in [m : {<<>>} \cup {[n \in {<<"p">>} |-> v] : v \in LimitValues},
               name : VarNames,
               def : {Value(t, Seven) : t \in IntDefaultTypes},
               intSize : {32, 64}]
    /\ rOut = NoOut
    /\ IdlePrefix /\ IdleBuild /\ IdleRun

SpecRetrWide == InitRetrWide /\ [][NextRetr]_vars

\* the width in bits that a default of type t requests
WidthOf(t, intSize) ==
    IF t \in {"int", "*int"} THEN intSize
    ELSE IF t \in {"int32", "*int32"} THEN 32 ELSE 64

\* the decimal string s denotes a value in -2^(w-1) .. 2^(w-1) - 1
FitsWidth(s, w) ==
    LET neg == s[1] = "-"
        mag == StripZeros(IF s[1] \in {"+", "-"} THEN Tail(s) ELSE s)
    IN  IF neg THEN ~DigitsLess(Cutoff(w), mag) ELSE DigitsLess(mag, Cutoff(w))

\* C15: with the variable present and a default of an integer type, a value
\* returned without error has the type of the default, and a decimal string
\* whose value does not fit the width the default requests gives an error.
C15_ResultTypeFollowsDefault ==
    (rOut.st = "done" /\ Present /\ rq.def.type \in IntDefaultTypes) =>
        /\ rOut.res.err = "none" => rOut.res.val.type = rq.def.type
        /\ (/\ IsDecimal(VarString)
            /\ ~FitsWidth(VarString, WidthOf(rq.def.type, rq.intSize)))
               => rOut.res.err # "none"

====
